---- MODULE Spec2Model ----
(***************************************************************************)
(* A model of cemconv's COLLADA exporter (src/collada_export.rs): the      *)
(* light-name decoder Light::from_str, the geometry builder write_meshes   *)
(* and the document assembler convert.                                     *)
(*                                                                         *)
(* Text is a sequence of one-character strings, so that split('_'),        *)
(* starts_with and the decimal parser work on characters as the code does. *)
(* The document is the sequence of elements convert pushes, in order; each *)
(* element is a record whose field el names it.                            *)
(***************************************************************************)
EXTENDS Integers, Sequences, FiniteSets, TLC

VARIABLES
    cem,             \* the Scene<V2> handed to convert (only cem.model is read)
    overflow_checks, \* the build: TRUE panics on u32 overflow, FALSE wraps
    pc,              \* position of convert / from_str
    idx,             \* the running loop's counter (materials, frames, tag points)
    polygons,        \* write_meshes' flattened index buffer
    string,          \* the document built so far
    stderr,          \* lines written by eprintln!
    parse_calls,     \* the names handed to name.parse::<Light>()
    panicked_in,     \* the position at which a panic unwound, or "none"
    definition,      \* the argument of a direct Light::from_str call
    tokens,          \* the tokens that argument was written from
    result           \* what that call returned

vars == <<cem, overflow_checks, pc, idx, polygons, string, stderr, parse_calls,
          panicked_in, definition, tokens, result>>

(***************************************************************************)
(* Bounds of the model.                                                    *)
(***************************************************************************)
MaxTris == 2
MaxMaterials == 2
MaxFrames == 3
MaxTags == 2
MaxFields == 7

(***************************************************************************)
(* u32 arithmetic.  A u32 is kept as two 16-bit limbs, value hi * 2^16 +   *)
(* lo, so that the full 32-bit range and its overflow are in the model.    *)
(***************************************************************************)
Limb == 256 * 256

U32(hi, lo) == [hi |-> hi, lo |-> lo]

\* the u32 of a small natural number
U(n) == U32(n \div Limb, n % Limb)

U32Max == U32(Limb - 1, Limb - 1)

\* a + b as a number, before it is stored in 32 bits: hi may reach past a limb
SumOf(a, b) == U32(a.hi + b.hi + ((a.lo + b.lo) \div Limb), (a.lo + b.lo) % Limb)

\* a + b on u32 in a build that wraps
AddU32(a, b) == U32(SumOf(a, b).hi % Limb, SumOf(a, b).lo)

AddOverflows(a, b) == SumOf(a, b).hi >= Limb

\* r as f32: exact below 2^24, otherwise rounded to 24 significant bits, ties
\* to even; the result is a whole number up to 2^32, in limbs (hi up to 2^16)
RECURSIVE Ulp(_, _)
Ulp(hi, u) == IF hi < 256 * u THEN u ELSE Ulp(hi, 2 * u)

ToF32(r) ==
    LET u == Ulp(r.hi, 1)
        q == r.lo \div u
        rem == r.lo % u
        up == (2 * rem > u) \/ (2 * rem = u /\ q % 2 = 1)
        lo == (IF up THEN q + 1 ELSE q) * u
    IN  IF lo = Limb THEN U32(r.hi + 1, 0) ELSE U32(r.hi, lo)

(***************************************************************************)
(* Text.                                                                   *)
(***************************************************************************)
StartsWith(s, prefix) ==
    /\ Len(s) >= Len(prefix)
    /\ SubSeq(s, 1, Len(prefix)) = prefix

\* str::split('_'): the pieces between underscores; the empty string gives one
\* empty piece
RECURSIVE SplitGo(_, _, _, _)
SplitGo(s, k, cur, acc) ==
    IF k > Len(s) THEN Append(acc, cur)
    ELSE IF s[k] = "_" THEN SplitGo(s, k + 1, <<>>, Append(acc, cur))
    ELSE SplitGo(s, k + 1, Append(cur, s[k]), acc)

Split(s) == SplitGo(s, 1, <<>>, <<>>)

DigitChars == <<"0", "1", "2", "3", "4", "5", "6", "7", "8", "9">>

DigitVal(c) ==
    IF \E d \in 1..10 : DigitChars[d] = c
    THEN (CHOOSE d \in 1..10 : DigitChars[d] = c) - 1
    ELSE -1

\* format!("{}", n) of an unsigned integer
RECURSIVE ToDec(_)
ToDec(n) == IF n < 10 THEN <<DigitChars[n + 1]>>
            ELSE Append(ToDec(n \div 10), DigitChars[(n % 10) + 1])

\* str::parse::<u32>(): an optional '+', then one or more decimal digits whose
\* value fits in 32 bits
\* acc * 10 + d with both steps checked, as u32::from_str does
TimesTenPlus(acc, d) ==
    LET lo == acc.lo * 10 + d
        hi == acc.hi * 10 + (lo \div Limb)
    IN  [overflow |-> hi >= Limb, val |-> U32(hi % Limb, lo % Limb)]

RECURSIVE ParseDigits(_, _, _)
ParseDigits(s, k, acc) ==
    IF k > Len(s) THEN [ok |-> TRUE, val |-> acc]
    ELSE IF DigitVal(s[k]) < 0 THEN [ok |-> FALSE, val |-> U(0)]
    ELSE IF TimesTenPlus(acc, DigitVal(s[k])).overflow THEN [ok |-> FALSE, val |-> U(0)]
    ELSE ParseDigits(s, k + 1, TimesTenPlus(acc, DigitVal(s[k])).val)

ParseU32Lenient(s) ==
    IF s = <<>> THEN [ok |-> TRUE, val |-> U(0)]
    ELSE IF s = <<"+">> \/ s = <<"-">> THEN [ok |-> FALSE, val |-> U(0)]
    ELSE IF s[1] = "+" THEN ParseDigits(s, 2, U(0))
    ELSE ParseDigits(s, 1, U(0))

ParseU32(s) ==
    IF s = <<>> THEN [ok |-> FALSE, val |-> U(0)]
    ELSE IF s = <<"+">> \/ s = <<"-">> THEN [ok |-> FALSE, val |-> U(0)]
    ELSE IF s[1] = "+" THEN ParseDigits(s, 2, U(0))
    ELSE ParseDigits(s, 1, U(0))

(***************************************************************************)
(* Light::from_str.                                                        *)
(***************************************************************************)
\* the inner fn split: skips the first piece, then takes six; None when one
\* is missing
LightSplit(d) ==
    LET pieces == Split(d)
    IN  IF Len(pieces) < 7 THEN [some |-> FALSE, fields |-> <<>>]
        ELSE [some |-> TRUE, fields |-> SubSeq(pieces, 2, 7)]

\* (r as f32) / 255.0, kept as the fraction
ChannelScaled(r) == [num |-> ToF32(r), den |-> 256]

Channel(r) == [num |-> ToF32(r), den |-> 255]

LightFromStr(d) ==
    LET s == LightSplit(d)
        p == [k \in 1..6 |-> ParseU32(s.fields[k])]
    IN  IF ~s.some THEN [ok |-> FALSE, err |-> "Invalid light definition"]
        ELSE IF \E k \in 1..6 : ~p[k].ok
        THEN [ok |-> FALSE, err |-> "failed to parse number"]
        ELSE [ok |-> TRUE,
              color |-> <<Channel(p[1].val), Channel(p[2].val), Channel(p[3].val)>>,
              unk |-> <<p[4].val, p[5].val, p[6].val>>]

(***************************************************************************)
(* Fixed text of the exporter.                                             *)
(***************************************************************************)
\* "Scene_Root", the name convert passes to write_meshes and uses itself
SceneRoot == <<"S", "c", "e", "n", "e", "_", "R", "o", "o", "t">>

LightPrefix == <<"l", "i", "g", "h", "t", "_">>

LightPrefixNoUnderscore == <<"l", "i", "g", "h", "t">>

FrameInfix == <<"_", "f", "r", "a", "m", "e">>

MeshSuffix == <<"-", "m", "e", "s", "h">>

LightSuffix == <<"-", "l", "i", "g", "h", "t">>

MorphSuffix == <<"-", "m", "o", "r", "p", "h">>

Hash == <<"#">>

(***************************************************************************)
(* Tag-point names the model tries, written as tokens joined by '_'.  A    *)
(* token records, besides its text, whether it is a decimal integer,       *)
(* whether it is one that fits an unsigned 32-bit number, and its value;   *)
(* the decoder reads the text only.                                        *)
(***************************************************************************)
Tok(text, int, u32, val) == [text |-> text, int |-> int, u32 |-> u32, val |-> val]

TokLight == Tok(<<"l", "i", "g", "h", "t">>, FALSE, FALSE, U(0))

TokAnchor == Tok(<<"a", "n", "c", "h", "o", "r">>, FALSE, FALSE, U(0))

TokEmpty == Tok(<<>>, FALSE, FALSE, U(0))

TokMuzzle == Tok(<<"m", "u", "z", "z", "l", "e">>, FALSE, FALSE, U(0))

TokBad == Tok(<<"b", "a", "d">>, FALSE, FALSE, U(0))

Tok0 == Tok(<<"0">>, TRUE, TRUE, U(0))

Tok1 == Tok(<<"1">>, TRUE, TRUE, U(1))

Tok2 == Tok(<<"2">>, TRUE, TRUE, U(2))

Tok3 == Tok(<<"3">>, TRUE, TRUE, U(3))

Tok255 == Tok(<<"2", "5", "5">>, TRUE, TRUE, U(255))

Tok256 == Tok(<<"2", "5", "6">>, TRUE, TRUE, U(256))

TokPlus7 == Tok(<<"+", "7">>, TRUE, TRUE, U(7))

TokMinus1 == Tok(<<"-", "1">>, TRUE, FALSE, U(0))

Tok007 == Tok(<<"0", "0", "7">>, TRUE, TRUE, U(7))

TokX == Tok(<<"x">>, FALSE, FALSE, U(0))

Tok1x == Tok(<<"1", "x">>, FALSE, FALSE, U(0))

TokU32Max == Tok(<<"4", "2", "9", "4", "9", "6", "7", "2", "9", "5">>, TRUE, TRUE, U32Max)

TokU32Over == Tok(<<"4", "2", "9", "4", "9", "6", "7", "2", "9", "6">>, TRUE, FALSE, U(0))

FirstTokens == {TokLight, TokAnchor, TokEmpty}

BaseFields == {Tok0, Tok255}

SpecialFields == {Tok1, Tok256, TokPlus7, TokMinus1, Tok007, TokX, Tok1x, TokEmpty,
                  TokBad, TokU32Max, TokU32Over}

RECURSIVE Join(_)
Join(ts) == IF Len(ts) = 0 THEN <<>>
            ELSE IF Len(ts) = 1 THEN ts[1].text
            ELSE ts[1].text \o <<"_">> \o Join(Tail(ts))

\* field lists of up to MaxFields tokens: base tokens, with at most one
\* position holding a special token
FieldLists ==
    UNION { [1..n -> BaseFields] : n \in 0..MaxFields }
    \cup UNION { { [f EXCEPT ![k] = sp] : f \in [1..n -> BaseFields],
                                          k \in 1..n, sp \in SpecialFields }
                 : n \in 1..MaxFields }

ExampleRed == <<TokLight, Tok255, Tok0, Tok0, Tok1, Tok2, Tok3>>

ExampleBad == <<TokLight, TokBad>>

ExampleAnchor == <<TokAnchor, TokMuzzle>>

ExampleBare == <<TokLight>>

ExampleAnchorSix == <<TokAnchor, Tok1, Tok2, Tok3, Tok1, Tok2, Tok3>>

ExampleSeven == <<TokLight, Tok0, Tok255, Tok256, Tok1, Tok2, Tok3, Tok1>>

ExampleBadNumber == <<TokLight, Tok255, Tok0, Tok0, Tok1, Tok2, TokX>>

TagTokenLists == {ExampleRed, ExampleBad, ExampleAnchor, ExampleBare, ExampleAnchorSix,
                  ExampleSeven, ExampleBadNumber}

LightInputs ==
    { <<first>> \o f : first \in FirstTokens, f \in FieldLists } \cup TagTokenLists

\* the names given to tag points in the scenes convert is run on
TagNames == { Join(t) : t \in TagTokenLists }

(***************************************************************************)
(* Geometry (struct Geometry and its Display impl).                        *)
(***************************************************************************)
\* Matrix4::from_angle_x(Deg(-90.0)) applied to a point or a direction, taken
\* as the exact quarter turn (x, y, z) -> (x, z, -y)
Rotate(v) == <<v[1], v[3], 0 - v[2]>>

Abs(n) == IF n < 0 THEN 0 - n ELSE n

\* InnerSpace::normalize, for the axis-aligned non-zero normals of the scenes
\* below, whose magnitude is the sum of the absolute components
Normalize(v) ==
    LET m == Abs(v[1]) + Abs(v[2]) + Abs(v[3])
    IN  <<v[1] \div m, v[2] \div m, v[3] \div m>>

RECURSIVE Flatten(_)
Flatten(ss) == IF Len(ss) = 0 THEN <<>> ELSE Head(ss) \o Flatten(Tail(ss))

\* the name of frame frame_index's geometry
GeometryNameShifted(name, frame_index) ==
    IF frame_index > 0 THEN name \o FrameInfix \o ToDec(frame_index + 1) ELSE name

GeometryName(name, frame_index) ==
    IF frame_index > 0 THEN name \o FrameInfix \o ToDec(frame_index) ELSE name

\* polygons.clone(): every frame's Geometry gets the whole buffer
FramePolygonsTruncated(buffer, frame_index) ==
    IF frame_index > 0 THEN SubSeq(buffer, 1, Len(buffer) - 1) ELSE buffer

FramePolygons(buffer, frame_index) == buffer

\* the Geometry write_meshes fills for one frame
Geometry(name, frame_index, frame, buffer) ==
    [name |-> GeometryName(name, frame_index),
     mesh_positions |-> Flatten([k \in 1..Len(frame.vertices) |->
                                    Rotate(frame.vertices[k].position)]),
     mesh_normals |-> Flatten([k \in 1..Len(frame.vertices) |->
                                    Rotate(Normalize(frame.vertices[k].normal))]),
     mesh_map |-> Flatten([k \in 1..Len(frame.vertices) |->
                                    <<frame.vertices[k].texture[1],
                                      1 - frame.vertices[k].texture[2]>>]),
     polygons |-> FramePolygons(buffer, frame_index)]

\* Geometry's Display: the geometry element, its three sources, the triangle
\* count and the <p> list, where every index is written three times
GeometryFmt(g) ==
    [el |-> "geometry",
     id |-> g.name \o MeshSuffix,
     name |-> g.name,
     vertex_count |-> Len(g.mesh_positions) \div 3,
     mesh_positions |-> g.mesh_positions,
     mesh_normals |-> g.mesh_normals,
     mesh_map |-> g.mesh_map,
     triangles_count |-> Len(g.polygons) \div 3,
     p |-> Flatten([k \in 1..Len(g.polygons) |->
                       <<g.polygons[k], g.polygons[k], g.polygons[k]>>])]

(***************************************************************************)
(* write_meshes: the flattened index buffer.                               *)
(***************************************************************************)
\* index + triangle_slice.offset, the absolute triangle index, on u32
TriangleIndexNoOffset(index, triangle_slice) == index

TriangleIndex(index, triangle_slice) == AddU32(index, triangle_slice.offset)

\* the end of 0..triangle_slice.len
SliceEndInclusive(triangle_slice) == AddU32(triangle_slice.len, U(1))

SliceEnd(triangle_slice) == triangle_slice.len

\* k < n for a small natural k and a u32 n
Below(k, n) == n.hi > 0 \/ k < n.lo

\* one material's pass over its LOD-0 slice, from step k on.  A panic is an
\* overflowing u32 addition in a build that checks them, or a read of
\* triangle_data past its end.  (index as usize) * 3 + 2 is within the buffer
\* whenever index is within triangle_data, the buffer being three times as long.
RECURSIVE SliceLoop(_, _, _, _, _, _)
SliceLoop(buffer, k, triangle_slice, vertex_offset, triangle_data, checks) ==
    IF ~Below(k, SliceEnd(triangle_slice)) THEN [panic |-> FALSE, polygons |-> buffer]
    ELSE IF checks /\ AddOverflows(U(k), triangle_slice.offset)
    THEN [panic |-> TRUE, polygons |-> buffer]
    ELSE LET index == TriangleIndex(U(k), triangle_slice) IN
         IF index.hi > 0 \/ index.lo >= Len(triangle_data)
         THEN [panic |-> TRUE, polygons |-> buffer]
         ELSE LET triangle == triangle_data[index.lo + 1] IN
              IF checks /\ \E c \in 1..3 : AddOverflows(vertex_offset, triangle[c])
              THEN [panic |-> TRUE, polygons |-> buffer]
              ELSE SliceLoop([buffer EXCEPT
                                 ![index.lo * 3 + 1] = AddU32(vertex_offset, triangle[1]),
                                 ![index.lo * 3 + 2] = AddU32(vertex_offset, triangle[2]),
                                 ![index.lo * 3 + 3] = AddU32(vertex_offset, triangle[3])],
                             k + 1, triangle_slice, vertex_offset, triangle_data, checks)

MaterialPass(buffer, material, triangle_data, checks) ==
    SliceLoop(buffer, 0, material.triangles[1], material.vertex_offset,
              triangle_data, checks)

(***************************************************************************)
(* convert: lights, controller, nodes.                                     *)
(***************************************************************************)
\* the text "1.0" of the default light's colour
One == [num |-> U(1), den |-> 1]

White == <<One, One, One>>

Attenuation == "0.3"

Point(color) == [color |-> color, linear_attenuation |-> Attenuation]

IsLightNameLoose(name) == StartsWith(name, LightPrefixNoUnderscore)

IsLightName(name) == StartsWith(name, LightPrefix)

\* one pass of the tag-point loop: the light element, what eprintln! writes
\* and whether the name was parsed
LightStepOfSilent(name) ==
    LET parsed == LightFromStr(name)
    IN  IF IsLightName(name) /\ parsed.ok
        THEN [element |-> [el |-> "light", id |-> name \o LightSuffix,
                           points |-> <<Point(parsed.color)>>],
              errors |-> <<>>, parses |-> <<name>>]
        ELSE IF IsLightName(name)
        THEN [element |-> [el |-> "light", id |-> name \o LightSuffix,
                           points |-> <<>>],
              errors |-> <<>>, parses |-> <<name>>]
        ELSE [element |-> [el |-> "light", id |-> name \o LightSuffix,
                           points |-> <<Point(White)>>],
              errors |-> <<>>, parses |-> <<>>]

LightStepOf(name) ==
    LET parsed == LightFromStr(name)
    IN  IF IsLightName(name) /\ parsed.ok
        THEN [element |-> [el |-> "light", id |-> name \o LightSuffix,
                           points |-> <<Point(parsed.color)>>],
              errors |-> <<>>, parses |-> <<name>>]
        ELSE IF IsLightName(name)
        THEN [element |-> [el |-> "light", id |-> name \o LightSuffix,
                           points |-> <<Point(White)>>],
              errors |-> <<[name |-> name, message |-> parsed.err]>>,
              parses |-> <<name>>]
        ELSE [element |-> [el |-> "light", id |-> name \o LightSuffix,
                           points |-> <<Point(White)>>],
              errors |-> <<>>, parses |-> <<>>]

\* the frame indices the morph controller lists as targets
MorphTargetIndicesFromZero(frame_count) == [k \in 1..frame_count |-> k - 1]

MorphTargetIndices(frame_count) == [k \in 1..(frame_count - 1) |-> k]

Controller(name, frame_count) ==
    [el |-> "controller",
     id |-> name \o MorphSuffix,
     morph_source |-> Hash \o name \o MeshSuffix,
     targets_count |-> frame_count - 1,
     targets |-> [k \in 1..Len(MorphTargetIndices(frame_count)) |->
                     name \o FrameInfix \o ToDec(MorphTargetIndices(frame_count)[k])
                          \o MeshSuffix],
     targets_accessor_count |-> frame_count - 1,
     weights_count |-> frame_count - 1,
     weights |-> [k \in 1..(frame_count - 1) |-> "0"],
     weights_accessor_count |-> frame_count - 1]

\* what convert writes between the library_controllers tags
ControllersAlways(name, frame_count) ==
    IF frame_count > 0 THEN <<Controller(name, frame_count)>> ELSE <<>>

Controllers(name, frame_count) ==
    IF frame_count > 1 THEN <<Controller(name, frame_count)>> ELSE <<>>

RootNode(name) ==
    [el |-> "node", id |-> name, name |-> name,
     instance_geometry |-> Hash \o name \o MeshSuffix]

ChildNode(tag_name, position) ==
    [el |-> "child_node", name |-> tag_name, translate |-> Rotate(position),
     instance_light |-> Hash \o tag_name \o LightSuffix]

Min(a, b) == IF a < b THEN a ELSE b

(***************************************************************************)
(* The scenes convert is run on.                                           *)
(***************************************************************************)
SeqsUpTo(S, n) == UNION { [1..k -> S] : k \in 0..n }

VertexA == [position |-> <<1, 2, 3>>, normal |-> <<0, 0, 2>>, texture |-> <<0, 1>>]

VertexB == [position |-> <<0, -1, 4>>, normal |-> <<0, -1, 0>>, texture |-> <<1, 0>>]

TagPosition == <<1, 2, 3>>

TriangleA == <<U(0), U(1), U(2)>>

TriangleB == <<U(2), U(3), U(1)>>

Triangles == {TriangleA, TriangleB}

\* MaxTris triangles, A and B in turn
FullLod == [k \in 1..MaxTris |-> IF k % 2 = 1 THEN TriangleA ELSE TriangleB]

\* slices inside the LOD, slices reaching at most one triangle past it, and
\* one that starts at the largest u32
Slices == ({ [offset |-> U(o), len |-> U(l)] : o \in 0..MaxTris, l \in 0..MaxTris }
           \ { [offset |-> U(MaxTris), len |-> U(MaxTris)] })
          \cup { [offset |-> U32Max, len |-> U(2)] }

\* no offset, and the largest offset that TriangleA does not overflow
VertexOffsets == {U(0), U32(Limb - 1, Limb - 3)}

\* a v2::Material: of its fields write_meshes binds triangles and vertex_offset
MaterialSet == { [triangles |-> <<s>>, vertex_offset |-> v] :
                   s \in Slices, v \in VertexOffsets }

TagPositions(n) == [k \in 1..n |-> TagPosition]

BasicFrame(ntags) == [vertices |-> <<VertexA>>, tag_points |-> TagPositions(ntags)]

BasicLods == << <<TriangleA>> >>

BasicMaterials == << [triangles |-> <<[offset |-> U(0), len |-> U(1)]>>, vertex_offset |-> U(4)] >>

\* the slices tried when a model has several materials: the empty slice and
\* every non-empty slice inside the LOD or reaching one triangle past it
SliceShapes ==
    { sl \in Slices : /\ sl.offset.hi = 0
                      /\ sl.len.lo >= 1 \/ sl.offset.lo = 0 }

\* the vertex offsets of a model's materials: all 0, or every other one large
OffsetPatterns ==
    { [k \in 1..MaxMaterials |-> U(0)],
      [k \in 1..MaxMaterials |-> IF k % 2 = 1 THEN U32(Limb - 1, Limb - 3) ELSE U(0)],
      [k \in 1..MaxMaterials |-> IF k % 2 = 1 THEN U(0) ELSE U32(Limb - 1, Limb - 3)] }

\* many materials over the full LOD, two frames
ModelsManyMaterials ==
    { [lod_levels |-> <<FullLod>>,
       materials |-> [k \in 1..Len(ss) |->
                         [triangles |-> <<ss[k]>>, vertex_offset |-> offsets[k]]],
       frames |-> <<BasicFrame(0), BasicFrame(0)>>, tag_points |-> <<>>] :
      ss \in SeqsUpTo(SliceShapes, MaxMaterials), offsets \in OffsetPatterns }

\* every LOD list, none included, under at most one material
ModelsManyLods ==
    { [lod_levels |-> ls, materials |-> ms,
       frames |-> <<BasicFrame(0)>>, tag_points |-> <<>>] :
      ls \in {<<>>} \cup { <<l>> : l \in SeqsUpTo(Triangles, MaxTris) },
      ms \in SeqsUpTo(MaterialSet, 1) }

\* every list of tag-point names, over one and two frames
ModelsManyTags ==
    { [lod_levels |-> BasicLods, materials |-> BasicMaterials,
       frames |-> [k \in 1..n |-> BasicFrame(Len(ts))], tag_points |-> ts] :
      ts \in SeqsUpTo(TagNames, MaxTags), n \in 1..2 }

VertexLists == { <<VertexA>>, <<VertexA, VertexB>> }

\* every list of frames, none included; the frames of a list agree on their
\* tag-point count, which may differ from the model's
FramesWithTags(n) == { [vertices |-> v, tag_points |-> TagPositions(n)] :
                         v \in VertexLists }

FrameLists ==
    {<<>>} \cup
    UNION { { <<f0>> \o rest : f0 \in FramesWithTags(n),
                               rest \in SeqsUpTo(FramesWithTags(n), MaxFrames - 1) }
            : n \in 0..MaxTags }

ModelsManyFrames ==
    { [lod_levels |-> BasicLods, materials |-> BasicMaterials,
       frames |-> fs, tag_points |-> ts] :
      fs \in FrameLists, ts \in SeqsUpTo({Join(ExampleBad)}, MaxTags) }

Models == ModelsManyMaterials \cup ModelsManyLods \cup ModelsManyTags
          \cup ModelsManyFrames

BasicModel == [lod_levels |-> BasicLods, materials |-> BasicMaterials,
               frames |-> <<BasicFrame(0)>>, tag_points |-> <<>>]

(***************************************************************************)
(* convert, one action per straight-line stretch and per loop pass.        *)
(***************************************************************************)
Element(name) == [el |-> name]

Init ==
    /\ cem \in { [model |-> m] : m \in Models }
    /\ overflow_checks \in BOOLEAN
    /\ pc = "start"
    /\ idx = 0
    /\ polygons = <<>>
    /\ string = <<>>
    /\ stderr = <<>>
    /\ parse_calls = <<>>
    /\ panicked_in = "none"
    /\ definition = <<>>
    /\ tokens = <<>>
    /\ result = [state |-> "none"]

Panic(where) ==
    /\ pc' = "panic"
    /\ panicked_in' = where

\* convert's first lines and write_meshes' first two: the header, then
\* model.lod_levels[0] and the zeroed buffer
Start ==
    /\ pc = "start"
    /\ string' = <<Element("HEADER")>>
    /\ IF Len(cem.model.lod_levels) = 0
       THEN /\ Panic("lod_levels")
            /\ UNCHANGED polygons
       ELSE /\ polygons' = [k \in 1..(Len(cem.model.lod_levels[1]) * 3) |-> U(0)]
            /\ pc' = "materials"
            /\ UNCHANGED panicked_in
    /\ UNCHANGED <<cem, overflow_checks, idx, stderr, parse_calls, definition,
                   tokens, result>>

\* one pass of the loop over model.materials
MaterialStep ==
    /\ pc = "materials"
    /\ idx < Len(cem.model.materials)
    /\ LET pass == MaterialPass(polygons, cem.model.materials[idx + 1],
                                cem.model.lod_levels[1], overflow_checks)
       IN  IF pass.panic
           THEN /\ Panic("materials")
                /\ UNCHANGED <<polygons, idx>>
           ELSE /\ polygons' = pass.polygons
                /\ idx' = idx + 1
                /\ UNCHANGED <<pc, panicked_in>>
    /\ UNCHANGED <<cem, overflow_checks, string, stderr, parse_calls, definition,
                   tokens, result>>

EndMaterials ==
    /\ pc = "materials"
    /\ idx = Len(cem.model.materials)
    /\ pc' = "frames"
    /\ idx' = 0
    /\ UNCHANGED <<cem, overflow_checks, polygons, string, stderr, parse_calls,
                   panicked_in, definition, tokens, result>>

\* one pass of the loop over model.frames: fill a Geometry and write it
FrameStep ==
    /\ pc = "frames"
    /\ idx < Len(cem.model.frames)
    /\ string' = Append(string,
                        GeometryFmt(Geometry(SceneRoot, idx,
                                             cem.model.frames[idx + 1], polygons)))
    /\ idx' = idx + 1
    /\ UNCHANGED <<cem, overflow_checks, pc, polygons, stderr, parse_calls,
                   panicked_in, definition, tokens, result>>

\* write_meshes returns; the geometries are closed and the lights opened
EndFrames ==
    /\ pc = "frames"
    /\ idx = Len(cem.model.frames)
    /\ string' = string \o <<Element("/library_geometries"), Element("library_lights")>>
    /\ pc' = "lights"
    /\ idx' = 0
    /\ UNCHANGED <<cem, overflow_checks, polygons, stderr, parse_calls,
                   panicked_in, definition, tokens, result>>

\* one pass of the loop over model.tag_points
LightStep ==
    /\ pc = "lights"
    /\ idx < Len(cem.model.tag_points)
    /\ LET step == LightStepOf(cem.model.tag_points[idx + 1])
       IN  /\ string' = Append(string, step.element)
           /\ stderr' = stderr \o step.errors
           /\ parse_calls' = parse_calls \o step.parses
    /\ idx' = idx + 1
    /\ UNCHANGED <<cem, overflow_checks, pc, polygons, panicked_in, definition,
                   tokens, result>>

\* from the end of the lights to the head of the node loop: the controllers
\* library, the visual scene, the root node, then cem.model.frames[0]
EndLights ==
    /\ pc = "lights"
    /\ idx = Len(cem.model.tag_points)
    /\ string' = string
                 \o <<Element("/library_lights"), Element("library_controllers")>>
                 \o Controllers(SceneRoot, Len(cem.model.frames))
                 \o <<Element("/library_controllers"), Element("visual_scene"),
                      RootNode(SceneRoot)>>
    /\ IF Len(cem.model.frames) = 0
       THEN Panic("frames")
       ELSE /\ pc' = "nodes"
            /\ UNCHANGED panicked_in
    /\ idx' = 0
    /\ UNCHANGED <<cem, overflow_checks, polygons, stderr, parse_calls, definition,
                   tokens, result>>

\* one pass of the loop over tag_points zipped with frame 0's positions
NodeStep ==
    /\ pc = "nodes"
    /\ idx < Min(Len(cem.model.tag_points), Len(cem.model.frames[1].tag_points))
    /\ string' = Append(string, ChildNode(cem.model.tag_points[idx + 1],
                                          cem.model.frames[1].tag_points[idx + 1]))
    /\ idx' = idx + 1
    /\ UNCHANGED <<cem, overflow_checks, pc, polygons, stderr, parse_calls,
                   panicked_in, definition, tokens, result>>

\* the closing lines; convert returns string
Finish ==
    /\ pc = "nodes"
    /\ idx = Min(Len(cem.model.tag_points), Len(cem.model.frames[1].tag_points))
    /\ string' = string \o <<Element("/node"), Element("/visual_scene"),
                             Element("scene"), Element("/COLLADA")>>
    /\ pc' = "done"
    /\ UNCHANGED <<cem, overflow_checks, idx, polygons, stderr, parse_calls,
                   panicked_in, definition, tokens, result>>

Next ==
    \/ Start
    \/ MaterialStep
    \/ EndMaterials
    \/ FrameStep
    \/ EndFrames
    \/ LightStep
    \/ EndLights
    \/ NodeStep
    \/ Finish

Spec == Init /\ [][Next]_vars

(***************************************************************************)
(* Light::from_str called on its own, over every name of LightInputs.      *)
(***************************************************************************)
InitLight ==
    /\ cem = [model |-> BasicModel]
    /\ overflow_checks = FALSE
    /\ pc = "from_str"
    /\ idx = 0
    /\ polygons = <<>>
    /\ string = <<>>
    /\ stderr = <<>>
    /\ parse_calls = <<>>
    /\ panicked_in = "none"
    /\ tokens \in LightInputs
    /\ definition = Join(tokens)
    /\ result = [state |-> "pending"]

FromStr ==
    /\ pc = "from_str"
    /\ result' = LightFromStr(definition)
    /\ pc' = "returned"
    /\ UNCHANGED <<cem, overflow_checks, idx, polygons, string, stderr,
                   parse_calls, panicked_in, definition, tokens>>

NextLight == FromStr

SpecLight == InitLight /\ [][NextLight]_vars

(***************************************************************************)
(* Reading the document, and what the properties below say about a scene.  *)
(***************************************************************************)
Elems(name) == SelectSeq(string, LAMBDA e : e.el = name)

PositionOf(name) == CHOOSE k \in 1..Len(string) : string[k].el = name

Written(name) == \E k \in 1..Len(string) : string[k].el = name

Frames == cem.model.frames

Tags == cem.model.tag_points

Materials == cem.model.materials

\* a url "#id" without its '#'
Target(url) == Tail(url)

\* "<base>-mesh" and "<base>_frame<i>-mesh", written out for i below ten
FrameDigit(i) == <<"0", "1", "2", "3", "4", "5", "6", "7", "8", "9">>[i + 1]

ExpectedMeshId(i) ==
    IF i = 0 THEN SceneRoot \o MeshSuffix
    ELSE SceneRoot \o FrameInfix \o <<FrameDigit(i)>> \o MeshSuffix

\* the tokens a tag-point name was written from
TokensOf(name) == CHOOSE t \in TagTokenLists : Join(t) = name

BeginsWithLightUnderscore(name) ==
    /\ Len(TokensOf(name)) >= 2
    /\ TokensOf(name)[1] = TokLight

SixNumbers(t) == Len(t) >= 7 /\ \A k \in 2..7 : t[k].u32

Reported(name) == \E k \in 1..Len(stderr) : stderr[k].name = name

\* the tag-point loop has run to its end
LightsWritten == pc \in {"nodes", "done"} \/ panicked_in = "frames"

\* the material loop has run to its end
BufferBuilt == pc \in {"frames", "lights", "nodes", "done"} \/ panicked_in = "frames"

Lod0 == cem.model.lod_levels[1]

\* triangle t (from 0) lies in material m's LOD-0 slice
InSlice(t, m) ==
    LET sl == Materials[m].triangles[1]
    IN  /\ sl.offset.hi = 0
        /\ sl.offset.lo <= t
        /\ sl.len.hi > 0 \/ t < sl.offset.lo + sl.len.lo

NoOverlap ==
    \A m1, m2 \in 1..Len(Materials) : \A t \in 0..(Len(Lod0) - 1) :
        InSlice(t, m1) /\ InSlice(t, m2) => m1 = m2

\* the invariants of a well-formed scene that the totality claim lists: at
\* least one frame, every material's LOD-0 slice within LOD 0, equal vertex
\* counts across frames, one position per tag point in every frame
WellFormed ==
    /\ Len(Frames) >= 1
    /\ \A m \in 1..Len(Materials) :
          LET sl == Materials[m].triangles[1]
          IN  /\ Len(cem.model.lod_levels) >= 1
              /\ SumOf(sl.offset, sl.len).hi = 0
              /\ SumOf(sl.offset, sl.len).lo <= Len(Lod0)
    /\ \A f, g \in 1..Len(Frames) : Len(Frames[f].vertices) = Len(Frames[g].vertices)
    /\ \A f \in 1..Len(Frames) : Len(Frames[f].tag_points) = Len(Tags)

HasLod0 == Len(cem.model.lod_levels) >= 1

\* no vertex_offset + index of a triangle drawn by a material passes 2^32
NoIndexOverflow ==
    \A m \in 1..Len(Materials) : \A t \in 0..(Len(Lod0) - 1) :
        InSlice(t, m) =>
            \A c \in 1..3 : ~AddOverflows(Materials[m].vertex_offset, Lod0[t + 1][c])

(***************************************************************************)
(* Properties.                                                             *)
(***************************************************************************)
\* C1: once the library_controllers tags are both written, nothing lies
\* between them when the model has one frame, and exactly one controller
\* element lies between them when it has more than one.
C1_ControllerIffManyFrames ==
    Written("/library_controllers") =>
        LET between == SubSeq(string, PositionOf("library_controllers") + 1,
                              PositionOf("/library_controllers") - 1)
        IN  /\ Len(Frames) = 1 => between = <<>>
            /\ Len(Frames) > 1 => Len(between) = 1 /\ between[1].el = "controller"

C1_Witness ==
    /\ pc = "done"
    /\ Len(Frames) > 1
    /\ Len(Elems("controller")) = 1

\* C2: the controller written for n > 1 frames lists exactly the n-1 ids
\* "<base>_frame<i>-mesh", i = 1..n-1 in increasing order, carries n-1 weights
\* all 0, and declares n-1 in every count of both arrays and their accessors.
C2_MorphTargetsAndWeights ==
    \A k \in 1..Len(string) :
        string[k].el = "controller" =>
            LET c == string[k]
                n == Len(Frames)
            IN  /\ n > 1
                /\ Len(c.targets) = n - 1
                /\ \A i \in 1..(n - 1) : c.targets[i] = ExpectedMeshId(i)
                /\ Len(c.weights) = n - 1
                /\ \A i \in 1..(n - 1) : c.weights[i] = "0"
                /\ c.targets_count = n - 1
                /\ c.targets_accessor_count = n - 1
                /\ c.weights_count = n - 1
                /\ c.weights_accessor_count = n - 1

C2_Witness ==
    /\ pc = "done"
    /\ Len(Frames) = 3
    /\ Len(Elems("controller")) = 1
    /\ Len(Elems("controller")[1].targets) = 2

\* C3: all geometries written so far carry the same <p> list and the same
\* triangle count, whatever the frames' vertices.
C3_SameIndexBuffer ==
    \A i, j \in 1..Len(string) :
        string[i].el = "geometry" /\ string[j].el = "geometry" =>
            /\ string[i].p = string[j].p
            /\ string[i].triangles_count = string[j].triangles_count

C3_Witness ==
    /\ pc = "done"
    /\ \E i, j \in 1..Len(Elems("geometry")) :
          /\ Elems("geometry")[i].mesh_positions # Elems("geometry")[j].mesh_positions
          /\ Len(Elems("geometry")[i].p) > 0
          /\ Elems("geometry")[i].p = Elems("geometry")[j].p

\* C4, as claimed: a name decodes only if it is the token "light" followed by
\* exactly six integer tokens.
C4_OnlyLightAndExactlySix ==
    pc = "returned" /\ result.ok =>
        /\ tokens[1] = TokLight
        /\ Len(tokens) = 7
        /\ \A k \in 2..7 : tokens[k].int

\* C4, amended: a name decodes exactly when it has at least seven tokens of
\* which the second to the seventh are unsigned 32-bit decimals; the first
\* token and the tokens after the seventh are not examined.
C4_DecodesIffSixNumbersFollow ==
    pc = "returned" => (result.ok <=> SixNumbers(tokens))

C4_Witness ==
    /\ pc = "returned"
    /\ result.ok
    /\ tokens[1] = TokAnchor
    /\ Len(tokens) = 8

\* the channel is at most 1.0
InUnit(channel) == channel.num.hi = 0 /\ channel.num.lo <= channel.den

\* |a - b| for two whole numbers in limbs that are less than 2^16 limbs apart
Distance(a, b) == Abs((a.hi - b.hi) * Limb + (a.lo - b.lo))

\* channel is field / 255 in f32: the field itself over 255 below 2^24, and
\* within half a unit in the last place (at most 128) of it above
IsFieldOver255(channel, field) ==
    /\ channel.den = 255
    /\ field.hi < 256 => channel.num = field
    /\ Distance(channel.num, field) <= 128

\* C5, as claimed: a decoded colour channel is its field over 255 and at most
\* 1, and I, J, K are returned as they are.
C5_ChannelsInUnitRange ==
    pc = "returned" /\ result.ok =>
        /\ \A c \in 1..3 : /\ IsFieldOver255(result.color[c], tokens[c + 1].val)
                           /\ InUnit(result.color[c])
        /\ result.unk = <<tokens[5].val, tokens[6].val, tokens[7].val>>

\* C5, amended: a decoded colour channel is its field over 255, which is at
\* most 1 exactly when the field is at most 255; I, J, K are returned as they
\* are; "light_255_0_0_1_2_3" gives colour (1, 0, 0) and parameters (1, 2, 3).
C5_ChannelsAreFieldOver255 ==
    pc = "returned" /\ result.ok =>
        /\ \A c \in 1..3 :
              /\ IsFieldOver255(result.color[c], tokens[c + 1].val)
              /\ InUnit(result.color[c]) <=>
                    (tokens[c + 1].val.hi = 0 /\ tokens[c + 1].val.lo <= 255)
        /\ result.unk = <<tokens[5].val, tokens[6].val, tokens[7].val>>
        /\ tokens = ExampleRed =>
              /\ result.color = <<[num |-> U(255), den |-> 255],
                                  [num |-> U(0), den |-> 255],
                                  [num |-> U(0), den |-> 255]>>
              /\ result.unk = <<U(1), U(2), U(3)>>

C5_Witness ==
    /\ pc = "returned"
    /\ result.ok
    /\ tokens[2] = Tok256
    /\ ~InUnit(result.color[1])
    /\ result.unk = <<U(0), U(255), U(0)>>

\* C6: a tag point whose name begins with "light_" and does not decode gets
\* the white point light with attenuation 0.3 and a report on stderr; the loop
\* never panics, goes on to the later tag points, and ends with one light
\* element, holding one point, per tag point, in tag-point order.
C6_BadLightNameFallsBack ==
    LET lights == Elems("light")
    IN  /\ panicked_in # "lights"
        /\ Len(lights) <= Len(Tags)
        /\ LightsWritten => Len(lights) = Len(Tags)
        /\ \A k \in 1..Len(lights) :
              /\ lights[k].id = Tags[k] \o LightSuffix
              /\ Len(lights[k].points) = 1
              /\ lights[k].points[1].linear_attenuation = "0.3"
              /\ BeginsWithLightUnderscore(Tags[k]) /\ ~SixNumbers(TokensOf(Tags[k])) =>
                    /\ lights[k].points[1].color = White
                    /\ Reported(Tags[k])

C6_Witness ==
    /\ pc = "done"
    /\ Len(Tags) = 2
    /\ Tags[1] = Join(ExampleBad)
    /\ Tags[2] = Join(ExampleRed)
    /\ Len(Elems("light")) = 2
    /\ Elems("light")[1].points[1].color = White
    /\ Elems("light")[2].points[1].color # White
    /\ Reported(Tags[1])

\* C7: a tag point whose name does not begin with "light_" gets the white
\* point light with attenuation 0.3; its name is never handed to the decoder
\* and nothing is reported for it.
C7_OtherNamesAreNotDecoded ==
    LET lights == Elems("light")
    IN  \A k \in 1..Len(lights) :
            ~BeginsWithLightUnderscore(Tags[k]) =>
                /\ lights[k].points = <<[color |-> White, linear_attenuation |-> "0.3"]>>
                /\ \A c \in 1..Len(parse_calls) : parse_calls[c] # Tags[k]
                /\ ~Reported(Tags[k])

C7_Witness ==
    /\ pc = "done"
    /\ Len(Tags) = 2
    /\ Tags[1] = Join(ExampleBare)
    /\ Tags[2] = Join(ExampleAnchorSix)
    /\ Len(Elems("light")) = 2
    /\ parse_calls = <<>>

\* the <p> list of a buffer: every index three times
Tripled(buffer) ==
    Flatten([k \in 1..Len(buffer) |-> <<buffer[k], buffer[k], buffer[k]>>])

C9_WellFormedNeverPanics == WellFormed => pc # "panic"

\* C9, amended: on a well-formed scene that has a LOD 0 and in which no
\* vertex_offset + index of a drawn triangle passes 2^32, convert never
\* panics and, until it has
\* returned, always has a next step to take (a pass of the tag-point loop
\* needs only a tag point left), each loop's counter staying within its
\* sequence.
C9_WellFormedRunsToEnd ==
    (WellFormed /\ HasLod0 /\ NoIndexOverflow) =>
        /\ pc # "panic"
        /\ \/ pc = "done"
           \/ pc = "lights" /\ idx < Len(Tags)
           \/ ENABLED (Start \/ MaterialStep \/ EndMaterials \/ FrameStep
                          \/ EndFrames \/ EndLights \/ NodeStep \/ Finish)
        /\ pc = "materials" => idx <= Len(Materials)
        /\ pc = "frames" => idx <= Len(Frames)
        /\ pc = "lights" => idx <= Len(Tags)
        /\ pc = "nodes" => idx <= Len(Tags)

C9_Witness ==
    /\ pc = "done"
    /\ WellFormed
    /\ HasLod0
    /\ NoIndexOverflow
    /\ overflow_checks
    /\ Len(Materials) = 2
    /\ InSlice(0, 1)
    /\ Materials[1].vertex_offset # U(0)
    /\ InSlice(Len(Lod0) - 1, 2)
    /\ Len(Frames) = 2

\* C10: in a finished document there is one geometry per frame, in order
\* (each with its frame's vertex count),
\* with id "<base>-mesh" for frame 0 and "<base>_frame<i>-mesh" for frame i;
\* the morph source, every morph target and the root node's instance_geometry
\* name one of these ids; and, the frames holding one position per tag point,
\* there is one child node per tag point whose instance_light names the id of
\* the light written for that tag point.
C10_ReferencesAreDefined ==
    pc = "done" =>
        LET geometries == Elems("geometry")
            ids == { geometries[k].id : k \in 1..Len(geometries) }
            lights == Elems("light")
            children == Elems("child_node")
        IN  /\ Len(geometries) = Len(Frames)
            /\ \A k \in 1..Len(geometries) :
                  /\ geometries[k].id = ExpectedMeshId(k - 1)
                  /\ geometries[k].vertex_count = Len(Frames[k].vertices)
            /\ \A k \in 1..Len(string) :
                  /\ string[k].el = "controller" =>
                        /\ Head(string[k].morph_source) = "#"
                        /\ Target(string[k].morph_source) \in ids
                        /\ \A i \in 1..Len(string[k].targets) :
                              string[k].targets[i] \in ids
                  /\ string[k].el = "node" =>
                        /\ Head(string[k].instance_geometry) = "#"
                        /\ Target(string[k].instance_geometry) \in ids
            /\ Len(Frames[1].tag_points) = Len(Tags) => Len(children) = Len(Tags)
            /\ \A k \in 1..Len(children) :
                  /\ children[k].name = Tags[k]
                  /\ children[k].instance_light = Hash \o Tags[k] \o LightSuffix
                  /\ lights[k].id = Target(children[k].instance_light)

C10_Witness ==
    /\ pc = "done"
    /\ Len(Frames) = 2
    /\ Len(Tags) = 2
    /\ Len(Elems("child_node")) = 2
    /\ Len(Elems("controller")) = 1
    /\ Len(Elems("geometry")) = 2

====
